---- MODULE Spec2Model ----
(***************************************************************************)
(* Model of the char_lcd_rgb_i2c driver (src/src/lib.rs): a HD44780        *)
(* character LCD behind an MCP23017 GPIO expander.                         *)
(*                                                                         *)
(* Every Rust function of the driver is an operator from machine state to  *)
(* machine state.  A machine state m holds the driver struct (m.lcd), the  *)
(* expander registers (m.mcp), the expander calls issued so far by the     *)
(* running public call (m.log), the fault injection of the bus (m.faulty,  *)
(* m.fuel) and the control status m.st:                                    *)
(*   "ok"      still running / returned Ok(())                             *)
(*   "mcp"     an expander call returned Err, propagated by `?`            *)
(*   "invalid" Err(LcdError::Other) from set_cursor's row validation       *)
(*   "panic"   the process aborted; m.panic says why: "index" (out of      *)
(*             bounds), "sub" or "add" (arithmetic overflow check)         *)
(* Once m.st # "ok" every later step is skipped, which is what `?` and a   *)
(* panic do.  Sleeps are not modelled.                                     *)
(***************************************************************************)
EXTENDS Integers, Sequences, FiniteSets, TLC

VARIABLES
    phase,            \* "start" | "live" | "failed" | "aborted"
    lcd,              \* the CharLCDRGBI2C struct (without its mcp handle)
    mcp,              \* the expander's registers, per pin
    ret,              \* the last public call: name, arguments, result, expander calls
    ncalls,           \* public calls made on the driver since construction
    bus_failed,       \* an expander call (or opening the bus) has failed in this run
    overflow_checks   \* the build: TRUE = overflow checks on (debug), FALSE = wrapping

vars == <<phase, lcd, mcp, ret, ncalls, bus_failed, overflow_checks>>

---------------------------------------------------------------------------
(* Pin mappings, lib.rs 15-34 *)
LCD_RS == "B7"
LCD_E == "B5"
LCD_D4 == "B4"
LCD_D5 == "B3"
LCD_D6 == "B2"
LCD_D7 == "B1"
LCD_RW == "B6"
RGB_RED == "A6"
RGB_GREEN == "A7"
RGB_BLUE == "B0"
LCD_BACKLIGHT == "A5"
BTN_LEFT == "A4"
BTN_UP == "A3"
BTN_DOWN == "A2"
BTN_RIGHT == "A1"
BTN_SELECT == "A0"

Pins == {"A0", "A1", "A2", "A3", "A4", "A5", "A6", "A7",
         "B0", "B1", "B2", "B3", "B4", "B5", "B6", "B7"}

(* LCD commands and flags, lib.rs 37-66 *)
LCD_CLEARDISPLAY == 1
LCD_RETURNHOME == 2
LCD_ENTRYMODESET == 4
LCD_DISPLAYCONTROL == 8
LCD_FUNCTIONSET == 32
LCD_SETDDRAMADDR == 128
LCD_ENTRYLEFT == 2
LCD_ENTRYSHIFTDECREMENT == 0
LCD_DISPLAYON == 4
LCD_CURSOROFF == 0
LCD_BLINKOFF == 0
LCD_4BITMODE == 0
LCD_2LINE == 8
LCD_1LINE == 0
LCD_5X8DOTS == 0
LEFT_TO_RIGHT == 0

(* lib.rs 73 and the local copy in set_cursor, lib.rs 316; 1-based here *)
LCD_ROW_OFFSETS == <<0, 64, 20, 84>>

---------------------------------------------------------------------------
(* Machine integers *)

\* usize arithmetic wraps at this modulus when overflow checks are off.  TLC's
\* integers are 32 bits wide, so the 64-bit usize is modelled by a 30-bit one:
\* every value the model feeds in is far below it, and the only wrapped values
\* (0 - 1) keep what the code reads from them: `as u8` = 255 and index >= 4.
UsizeModulus == 2 ^ 30

U8Modulus == 2 ^ 8

RECURSIVE BitOp(_, _, _, _)
\* bitwise combination of the low n bits of a and b; or = TRUE is |, FALSE is &
BitOp(a, b, n, or) ==
    IF n = 0 THEN 0
    ELSE LET x == a % 2
             y == b % 2
             bit == IF or THEN (IF x + y > 0 THEN 1 ELSE 0)
                          ELSE (IF x + y = 2 THEN 1 ELSE 0)
         IN  bit + 2 * BitOp(a \div 2, b \div 2, n - 1, or)

BitOr(a, b) == BitOp(a, b, 8, TRUE)
BitAnd(a, b) == BitOp(a, b, 8, FALSE)

\* `value & mask > 0` for a mask of one bit
TestBit(value, mask) == (value \div mask) % 2 = 1

\* mutant: a saturating conversion instead of the truncating one
AsU8Saturating(x) == IF x >= U8Modulus THEN U8Modulus - 1 ELSE x
\* `x as u8`
AsU8(x) == x % U8Modulus

---------------------------------------------------------------------------
(* The expander (mcp230xx crate, used through set_direction, set_pull_up   *)
(* and set_output_latch).  Power-on registers of the MCP23017: every pin   *)
(* an input, pull-ups disabled, output latches low.                        *)

McpReset ==
    [dir |-> [p \in Pins |-> "Input"],
     pullup |-> [p \in Pins |-> "Disabled"],
     olat |-> [p \in Pins |-> "Low"]]

\* one call of the expander: its kind, pin, value, and whether it succeeded
Call(kind, pin, val, ok) == [kind |-> kind, pin |-> pin, val |-> val, ok |-> ok]

McpApply(regs, kind, pin, val) ==
    CASE kind = "dir" -> [regs EXCEPT !.dir[pin] = val]
      [] kind = "pullup" -> [regs EXCEPT !.pullup[pin] = val]
      [] kind = "latch" -> [regs EXCEPT !.olat[pin] = val]

\* mutant: a failed expander call is repeated once and the operation goes on
McpCallRetrying(m, kind, pin, val) ==
    IF m.st # "ok" THEN m
    ELSE IF m.faulty /\ m.fuel = 0
         THEN [m EXCEPT !.mcp = McpApply(@, kind, pin, val),
                        !.log = Append(Append(@, Call(kind, pin, val, FALSE)),
                                       Call(kind, pin, val, TRUE)),
                        !.fuel = @ - 1]
         ELSE [m EXCEPT !.mcp = McpApply(@, kind, pin, val),
                        !.log = Append(@, Call(kind, pin, val, TRUE)),
                        !.fuel = IF m.faulty THEN @ - 1 ELSE @]
\* self.mcp.<call>(pin, val)?  : skipped once the call has ended; fails when the
\* bus fault is due (the failed call leaves the registers as they were).
McpCall(m, kind, pin, val) ==
    IF m.st # "ok" THEN m
    ELSE IF m.faulty /\ m.fuel = 0
         THEN [m EXCEPT !.st = "mcp", !.log = Append(@, Call(kind, pin, val, FALSE))]
         ELSE [m EXCEPT !.mcp = McpApply(@, kind, pin, val),
                        !.log = Append(@, Call(kind, pin, val, TRUE)),
                        !.fuel = IF m.faulty THEN @ - 1 ELSE @]

set_direction(m, pin, d) == McpCall(m, "dir", pin, d)
set_pull_up(m, pin, p) == McpCall(m, "pullup", pin, p)
set_output_latch(m, pin, level) == McpCall(m, "latch", pin, level)

Level(b) == IF b THEN "High" ELSE "Low"

\* a step that only runs while the call has not ended: `?` returns the error of
\* the step before, and nothing runs after a panic
Step(m, next) == IF m.st # "ok" THEN m ELSE next

---------------------------------------------------------------------------
(* Low-level write path, lib.rs 217-283 *)

pulse_enable(m) ==
    LET m1 == set_output_latch(m, LCD_E, "Low")
        m2 == set_output_latch(m1, LCD_E, "High")
    IN  Step(m1, Step(m2, set_output_latch(m2, LCD_E, "Low")))

\* mutant: the enable pulse before the data pins are set
write4bits_pulse_first(m, value) ==
    LET m0 == pulse_enable(m)
        m1 == set_output_latch(m0, LCD_D4, Level(TestBit(value, 1)))
        m2 == set_output_latch(m1, LCD_D5, Level(TestBit(value, 2)))
        m3 == set_output_latch(m2, LCD_D6, Level(TestBit(value, 4)))
    IN  Step(m0, Step(m1, Step(m2, Step(m3,
            set_output_latch(m3, LCD_D7, Level(TestBit(value, 8)))))))
write4bits(m, value) ==
    LET m1 == set_output_latch(m, LCD_D4, Level(TestBit(value, 1)))
        m2 == set_output_latch(m1, LCD_D5, Level(TestBit(value, 2)))
        m3 == set_output_latch(m2, LCD_D6, Level(TestBit(value, 4)))
        m4 == set_output_latch(m3, LCD_D7, Level(TestBit(value, 8)))
    IN  Step(m1, Step(m2, Step(m3, Step(m4, pulse_enable(m4)))))

\* mutant: the low nibble sent first
write8_low_nibble_first(m, value, char_mode) ==
    LET m1 == set_output_latch(m, LCD_RS, Level(char_mode))
        m2 == write4bits(m1, value % 16)
    IN  Step(m1, Step(m2, write4bits(m2, value \div 16)))
write8(m, value, char_mode) ==
    LET m1 == set_output_latch(m, LCD_RS, Level(char_mode))
        m2 == write4bits(m1, value \div 16)
    IN  Step(m1, Step(m2, write4bits(m2, value % 16)))

write_command(m, value) == write8(m, value, FALSE)

---------------------------------------------------------------------------
(* Public operations, lib.rs 285-403 *)

Panic(m, why) == [m EXCEPT !.st = "panic", !.panic = why]

\* usize `a - b`: panics under overflow checks when b > a, wraps otherwise
USubPanics(m, a, b) == a < b /\ m.checks
USub(a, b) == (a - b) % UsizeModulus

\* u8 `a + b`: panics under overflow checks when the sum exceeds 255, wraps otherwise
U8AddPanics(m, a, b) == a + b >= U8Modulus /\ m.checks
U8Add(a, b) == (a + b) % U8Modulus

SetCursorTracking(m, row, column) ==
    Step(m, [m EXCEPT !.lcd.row = row, !.lcd.column = column])

\* mutant: clear() without the reset of the tracked cursor
clear_keeps_cursor(m) == write_command(m, LCD_CLEARDISPLAY)
clear(m) ==
    LET m1 == write_command(m, LCD_CLEARDISPLAY)
    IN  SetCursorTracking(m1, 0, 0)

home(m) ==
    LET m1 == write_command(m, LCD_RETURNHOME)
    IN  SetCursorTracking(m1, 0, 0)

\* mutant: the threshold at 1 instead of above 1
ChannelLevelFromOne(v) == IF v >= 1 THEN "Low" ELSE "High"
\* the level of one colour channel: any value > 1 turns the LED on (Low)
ChannelLevel(v) == IF v > 1 THEN "Low" ELSE "High"

\* mutant: the tracked colour stored before the pins are written
set_color_tracking_first(m, r, g, b) ==
    LET m0 == [m EXCEPT !.lcd.color_value = <<r, g, b>>]
        m1 == set_output_latch(m0, m.lcd.rgb[1], ChannelLevel(r))
        m2 == set_output_latch(m1, m.lcd.rgb[2], ChannelLevel(g))
    IN  Step(m1, Step(m2, set_output_latch(m2, m.lcd.rgb[3], ChannelLevel(b))))
set_color(m, r, g, b) ==
    LET m1 == set_output_latch(m, m.lcd.rgb[1], ChannelLevel(r))
        m2 == set_output_latch(m1, m.lcd.rgb[2], ChannelLevel(g))
        m3 == set_output_latch(m2, m.lcd.rgb[3], ChannelLevel(b))
    IN  Step(m1, Step(m2, Step(m3, [m3 EXCEPT !.lcd.color_value = <<r, g, b>>])))

\* the address command of both cursor operations:
\* LCD_SETDDRAMADDR | (column as u8 + offsets[row]), then the tracking update.
\* The index panics past the 4-entry table; the u8 sum may overflow.
AddressWrite(m, column, row) ==
    IF row >= Len(LCD_ROW_OFFSETS) THEN Panic(m, "index")
    ELSE IF U8AddPanics(m, AsU8(column), LCD_ROW_OFFSETS[row + 1]) THEN Panic(m, "add")
    ELSE LET command == BitOr(LCD_SETDDRAMADDR,
                              U8Add(AsU8(column), LCD_ROW_OFFSETS[row + 1]))
             m1 == write_command(m, command)
         IN  SetCursorTracking(m1, row, column)

\* mutant: the row check off by one
RowIsValidOffByOne(m, row) == row <= m.lcd.lines
RowIsValid(m, row) == row < m.lcd.lines

set_cursor(m, col, row) ==
    IF m.st # "ok" THEN m
    ELSE IF ~RowIsValid(m, row) THEN [m EXCEPT !.st = "invalid"]
    ELSE AddressWrite(m, col, row)

\* mutant: the backlight switched by a level write instead of the direction
set_backlight_by_level(m, on) ==
    LET m1 == set_output_latch(m, LCD_BACKLIGHT, Level(on))
    IN  Step(m1, [m1 EXCEPT !.lcd.backlight = on])
set_backlight(m, on) ==
    LET m1 == set_direction(m, LCD_BACKLIGHT, IF on THEN "Output" ELSE "Input")
    IN  Step(m1, [m1 EXCEPT !.lcd.backlight = on])

\* the clamping of cursor_position, lib.rs 347-352: the clamped value, and
\* whether computing it panics
ClampPanics(m, v, limit) == v >= limit /\ USubPanics(m, limit, 1)
Clamp(v, limit) == IF v >= limit THEN USub(limit, 1) ELSE v

\* mutant: cursor_position() validating the row as set_cursor() does
cursor_position_strict(m, column, row) ==
    IF m.st # "ok" THEN m
    ELSE IF ~RowIsValid(m, row) THEN [m EXCEPT !.st = "invalid"]
    ELSE AddressWrite(m, Clamp(column, m.lcd.columns), row)
cursor_position(m, column, row) ==
    IF m.st # "ok" THEN m
    ELSE IF ClampPanics(m, row, m.lcd.lines) THEN Panic(m, "sub")
    ELSE IF ClampPanics(m, column, m.lcd.columns) THEN Panic(m, "sub")
    ELSE AddressWrite(m, Clamp(column, m.lcd.columns), Clamp(row, m.lcd.lines))

NEWLINE == 10

\* the column message() positions at before the first character, lib.rs 367-373
FirstColumnPanics(m) ==
    /\ BitAnd(m.lcd.display_mode, LCD_ENTRYLEFT) = 0
    /\ \/ USubPanics(m, m.lcd.columns, 1)
       \/ USubPanics(m, USub(m.lcd.columns, 1), m.lcd.column)
FirstColumn(m) ==
    IF BitAnd(m.lcd.display_mode, LCD_ENTRYLEFT) > 0
    THEN m.lcd.column
    ELSE USub(USub(m.lcd.columns, 1), m.lcd.column)

\* the column message() positions at after a newline, lib.rs 379-393
NewlineColumnPanics(m) ==
    /\ BitAnd(m.lcd.display_mode, LCD_ENTRYLEFT) = 0
    /\ ~m.lcd.column_align
    /\ USubPanics(m, m.lcd.columns, 1)
\* mutant: a newline keeps the tracked column
NewlineColumnAligned(m) == m.lcd.column
NewlineColumn(m) ==
    IF m.lcd.column_align THEN m.lcd.column
    ELSE IF BitAnd(m.lcd.display_mode, LCD_ENTRYLEFT) > 0 THEN 0
    ELSE USub(m.lcd.columns, 1)

\* one iteration of message()'s loop for character ch: the machine after it
MessageChar(m, ch, line, first) ==
    LET m1 == IF first
              THEN IF FirstColumnPanics(m) THEN Panic(m, "sub")
                   ELSE cursor_position(m, FirstColumn(m), line)
              ELSE m
    IN  IF m1.st # "ok" THEN m1
        ELSE IF ch = NEWLINE
             THEN IF NewlineColumnPanics(m1) THEN Panic(m1, "sub")
                  ELSE cursor_position(m1, NewlineColumn(m1), line + 1)
             ELSE write8(m1, AsU8(ch), TRUE)

RECURSIVE MessageLoop(_, _, _, _)
\* the loop of message() from character i on, with the local `line`
MessageLoop(m, text, i, line) ==
    IF m.st # "ok" \/ i > Len(text) THEN m
    ELSE MessageLoop(MessageChar(m, text[i], line, i = 1), text, i + 1,
                     IF text[i] = NEWLINE THEN line + 1 ELSE line)

\* mutant: message() switching column alignment on
message_setting_align(m, text) ==
    LET m0 == [m EXCEPT !.lcd.message = text, !.lcd.column_align = TRUE]
        m1 == MessageLoop(m0, text, 1, m0.lcd.row)
    IN  SetCursorTracking(m1, 0, 0)
\* mutant: message() without the final reset of the tracked cursor
message_keeps_cursor(m, text) ==
    MessageLoop([m EXCEPT !.lcd.message = text], text, 1, m.lcd.row)
message(m, text) ==
    LET m0 == [m EXCEPT !.lcd.message = text]
        m1 == MessageLoop(m0, text, 1, m0.lcd.row)
    IN  SetCursorTracking(m1, 0, 0)

---------------------------------------------------------------------------
(* Construction, lib.rs 119-215 *)

\* the struct literal of new(), lib.rs 127-142
NewStruct(columns, lines) ==
    [columns |-> columns, lines |-> lines, backlight |-> TRUE,
     rgb |-> <<RGB_RED, RGB_GREEN, RGB_BLUE>>, color_value |-> <<0, 0, 0>>,
     display_control |-> 0, display_mode |-> 0, display_function |-> 0,
     row |-> 0, column |-> 0, column_align |-> FALSE, message |-> <<>>,
     direction |-> 0]

RECURSIVE SetDirections(_, _, _, _)
SetDirections(m, pins, i, d) ==
    IF m.st # "ok" \/ i > Len(pins) THEN m
    ELSE SetDirections(set_direction(m, pins[i], d), pins, i + 1, d)

RECURSIVE SetButtons(_, _, _)
SetButtons(m, pins, i) ==
    IF m.st # "ok" \/ i > Len(pins) THEN m
    ELSE LET m1 == set_direction(m, pins[i], "Input")
         IN  Step(m1, SetButtons(set_pull_up(m1, pins[i], "Enabled"), pins, i + 1))

setup_pins(m) ==
    LET m1 == SetDirections(m, <<LCD_RS, LCD_E, LCD_D4, LCD_D5, LCD_D6, LCD_D7, LCD_RW>>,
                            1, "Output")
        m2 == SetDirections(m1, <<RGB_RED, RGB_GREEN, RGB_BLUE>>, 1, "Output")
    IN  Step(m1, Step(m2,
            SetButtons(m2, <<BTN_LEFT, BTN_UP, BTN_DOWN, BTN_RIGHT, BTN_SELECT>>, 1)))

\* the 4-bit mode initialization sequence, lib.rs 180-187
\* mutant: the handshake with two reset pulses instead of three
HandshakeTwoResets(m) ==
    LET m1 == write4bits(m, 3)
        m2 == write4bits(m1, 3)
    IN  Step(m1, Step(m2, write4bits(m2, 2)))
Handshake(m) ==
    LET m1 == write4bits(m, 3)
        m2 == write4bits(m1, 3)
        m3 == write4bits(m2, 3)
    IN  Step(m1, Step(m2, Step(m3, write4bits(m3, 2))))

\* lib.rs 190-192
SetFlags(m) ==
    Step(m, [m EXCEPT
        !.lcd.display_control = BitOr(BitOr(LCD_DISPLAYON, LCD_CURSOROFF), LCD_BLINKOFF),
        !.lcd.display_function =
            BitOr(BitOr(BitOr(LCD_4BITMODE, LCD_1LINE), LCD_2LINE), LCD_5X8DOTS),
        !.lcd.display_mode = BitOr(LCD_ENTRYLEFT, LCD_ENTRYSHIFTDECREMENT)])

\* lib.rs 195-199
WriteFlags(m) ==
    LET m1 == Step(m, write_command(m, BitOr(LCD_DISPLAYCONTROL, m.lcd.display_control)))
        m2 == Step(m1, write_command(m1, BitOr(LCD_FUNCTIONSET, m1.lcd.display_function)))
    IN  Step(m1, Step(m2, write_command(m2, BitOr(LCD_ENTRYMODESET, m2.lcd.display_mode))))

\* lib.rs 205-209
InitTracking(m) ==
    Step(m, [m EXCEPT !.lcd.row = 0, !.lcd.column = 0, !.lcd.column_align = FALSE,
                      !.lcd.direction = LEFT_TO_RIGHT, !.lcd.message = <<>>])

initialize(m) ==
    LET m1 == set_output_latch(m, LCD_RS, "Low")
        m2 == set_output_latch(m1, LCD_E, "Low")
        m3 == set_output_latch(m2, LCD_RW, "Low")
        m4 == Handshake(m3)
        m5 == WriteFlags(SetFlags(m4))
        m6 == InitTracking(clear(m5))
    IN  Step(m1, Step(m2, Step(m3, Step(m4, Step(m5, Step(m6, set_color(m6, 0, 0, 0)))))))

\* mutant: new() dropping the result of initialize()
new_ignoring_initialize(m) ==
    LET m1 == setup_pins(m)
    IN  Step(m1, [initialize(m1) EXCEPT !.st = "ok"])
\* new() after the bus and the expander were opened
new(m) ==
    LET m1 == setup_pins(m)
    IN  Step(m1, initialize(m1))

---------------------------------------------------------------------------
(* Bounds and inputs *)

\* public calls made on a driver after its construction
MaxCalls == 2
\* the bus may fail in the construction or in one of the first MaxFaultCalls
\* public calls
MaxFaultCalls == 1

\* (columns, lines) passed to new(): the demo's 16x2, a display with more lines
\* than the offset table has entries, a one-cell display, and the degenerate 0x0
Geometries == {<<16, 2>>, <<20, 5>>, <<1, 1>>, <<0, 0>>}

ColumnArgs == {1, 200}
RowArgs == 0..4
ColorArgs == {<<0, 0, 0>>, <<2, 0, 2>>, <<100, 0, 100>>, <<1, 100, 1>>}

\* texts, as code points: "", "A", "AA", "\n\n\n", "A\nA", "Hi\nBye", and one
\* character beyond Latin-1 whose code point is 'A' + 256
HiBye == <<72, 105, NEWLINE, 66, 121, 101>>
WideText == <<321>>
TextArgs ==
    {<<>>, <<65>>, <<65, 65>>, <<NEWLINE, NEWLINE, NEWLINE>>, <<65, NEWLINE, 65>>,
     HiBye, WideText}

---------------------------------------------------------------------------
(* The state machine: one action per public call *)

NoCall == [op |-> "none", args |-> <<>>, st |-> "ok", panic |-> "", log |-> <<>>]

Init ==
    /\ phase = "start"
    /\ lcd = NewStruct(0, 0)
    /\ mcp = McpReset
    /\ ret = NoCall
    /\ ncalls = 0
    /\ bus_failed = FALSE
    /\ overflow_checks \in BOOLEAN

\* the machine a call starts in; the bus fails at expander call number fuel + 1
\* of this call when faulty
Machine(struct, faulty, fuel) ==
    [lcd |-> struct, mcp |-> mcp, log |-> <<>>, faulty |-> faulty, fuel |-> fuel,
     st |-> "ok", panic |-> "", checks |-> overflow_checks]

\* the bus fails at most once in a run, in the construction or in one of the
\* first MaxFaultCalls calls
FaultAllowed == ~bus_failed /\ (phase = "start" \/ ncalls < MaxFaultCalls)

\* a call runs with every expander call succeeding, or with the bus failing at
\* any one of the expander calls it makes
Outcomes(struct, Run(_)) ==
    LET good == Run(Machine(struct, FALSE, 0))
    IN  {good} \cup
        (IF FaultAllowed
         THEN {Run(Machine(struct, TRUE, n)) : n \in 0..(Len(good.log) - 1)}
         ELSE {})

Return(op, args, m) ==
    /\ ret' = [op |-> op, args |-> args, st |-> m.st, panic |-> m.panic, log |-> m.log]
    /\ mcp' = m.mcp
    /\ bus_failed' = (bus_failed \/ m.st = "mcp")
    /\ UNCHANGED overflow_checks

\* a public method may be called on a constructed driver
Callable ==
    /\ phase = "live"
    /\ ncalls < MaxCalls

\* after a call returned a bus failure the caller goes on with clear() or
\* set_backlight() only; every other method is called on a driver whose bus has
\* not failed
CallableUnfailed == Callable /\ ~bus_failed

\* a public method of the driver returns (or aborts the process)
MethodReturn(op, args, m) ==
    /\ Return(op, args, m)
    /\ lcd' = m.lcd
    /\ phase' = IF m.st = "panic" THEN "aborted" ELSE "live"
    /\ ncalls' = ncalls + 1

\* CharLCDRGBI2C::new: opening the bus or attaching the expander may fail before
\* any pin is touched; a driver exists only when setup_pins and initialize
\* both returned Ok
NewFailsToOpen ==
    /\ phase = "start"
    /\ FaultAllowed
    /\ \E g \in Geometries :
        ret' = [op |-> "new", args |-> g, st |-> "mcp", panic |-> "", log |-> <<>>]
    /\ phase' = "failed"
    /\ bus_failed' = TRUE
    /\ UNCHANGED <<lcd, mcp, ncalls, overflow_checks>>

New ==
    /\ phase = "start"
    /\ \E g \in Geometries :
        \E m \in Outcomes(NewStruct(g[1], g[2]), LAMBDA x : new(x)) :
            /\ Return("new", g, m)
            /\ phase' = IF m.st = "ok" THEN "live" ELSE "failed"
            /\ lcd' = IF m.st = "ok" THEN m.lcd ELSE lcd
    /\ UNCHANGED ncalls

Clear ==
    /\ Callable
    /\ \E m \in Outcomes(lcd, LAMBDA x : clear(x)) : MethodReturn("clear", <<>>, m)

Home ==
    /\ CallableUnfailed
    /\ \E m \in Outcomes(lcd, LAMBDA x : home(x)) : MethodReturn("home", <<>>, m)

SetColor ==
    /\ CallableUnfailed
    /\ \E c \in ColorArgs :
        \E m \in Outcomes(lcd, LAMBDA x : set_color(x, c[1], c[2], c[3])) :
            MethodReturn("set_color", c, m)

SetCursor ==
    /\ CallableUnfailed
    /\ \E col \in ColumnArgs, row \in RowArgs :
        \E m \in Outcomes(lcd, LAMBDA x : set_cursor(x, col, row)) :
            MethodReturn("set_cursor", <<col, row>>, m)

SetBacklight ==
    /\ Callable
    /\ \E on \in BOOLEAN :
        \E m \in Outcomes(lcd, LAMBDA x : set_backlight(x, on)) :
            MethodReturn("set_backlight", <<on>>, m)

CursorPosition ==
    /\ CallableUnfailed
    /\ \E col \in ColumnArgs, row \in RowArgs :
        \E m \in Outcomes(lcd, LAMBDA x : cursor_position(x, col, row)) :
            MethodReturn("cursor_position", <<col, row>>, m)

Message ==
    /\ CallableUnfailed
    /\ \E text \in TextArgs :
        \E m \in Outcomes(lcd, LAMBDA x : message(x, text)) :
            MethodReturn("message", <<text>>, m)

Next ==
    \/ NewFailsToOpen
    \/ New
    \/ Clear
    \/ Home
    \/ SetColor
    \/ SetCursor
    \/ SetBacklight
    \/ CursorPosition
    \/ Message

Spec == Init /\ [][Next]_vars

---------------------------------------------------------------------------
(* The private write path called on its own: write4bits and write8 are run *)
(* once, with every nibble and every byte, on a freshly constructed driver. *)

NibbleValues == 0..15
ByteValues == 0..255

InternalCallable == phase = "live" /\ ncalls = 0

InternalReturn(op, args, m) ==
    /\ Return(op, args, m)
    /\ lcd' = m.lcd
    /\ phase' = "internal"
    /\ UNCHANGED ncalls

Write4bits ==
    /\ InternalCallable
    /\ \E value \in NibbleValues :
        \E m \in Outcomes(lcd, LAMBDA x : write4bits(x, value)) :
            InternalReturn("write4bits", <<value>>, m)

Write8 ==
    /\ InternalCallable
    /\ \E value \in ByteValues, char_mode \in BOOLEAN :
        \E m \in Outcomes(lcd, LAMBDA x : write8(x, value, char_mode)) :
            InternalReturn("write8", <<value, char_mode>>, m)

NextInternal ==
    \/ Next
    \/ Write4bits
    \/ Write8

SpecInternal == Init /\ [][NextInternal]_vars

---------------------------------------------------------------------------
(* Reading a call's expander log: what the controller was sent.            *)
(* A nibble is sent by an enable pulse: a successful High write of the     *)
(* enable pin followed by a successful Low write.  It carries the levels   *)
(* last written to the data pins and to register-select.                   *)

Succeeded(log) == \A i \in 1..Len(log) : log[i].ok

\* the level last written to pin before position i of the log
LastWrite(log, i, pin) ==
    LET before == {j \in 1..(i - 1) :
                      log[j].kind = "latch" /\ log[j].pin = pin /\ log[j].ok}
    IN  IF before = {} THEN "Low"
        ELSE log[CHOOSE j \in before : \A k \in before : k <= j].val

IsPulse(log, i) ==
    /\ i < Len(log)
    /\ log[i] = Call("latch", LCD_E, "High", TRUE)
    /\ log[i + 1] = Call("latch", LCD_E, "Low", TRUE)

BitOf(level, weight) == IF level = "High" THEN weight ELSE 0

NibbleAt(log, i) ==
    [rs |-> LastWrite(log, i, LCD_RS),
     nib |-> BitOf(LastWrite(log, i, LCD_D4), 1) + BitOf(LastWrite(log, i, LCD_D5), 2)
             + BitOf(LastWrite(log, i, LCD_D6), 4) + BitOf(LastWrite(log, i, LCD_D7), 8)]

\* the nibbles sent, in order
Sent(log) ==
    LET pulses == SelectSeq([i \in 1..Len(log) |-> i], LAMBDA i : IsPulse(log, i))
    IN  [k \in 1..Len(pulses) |-> NibbleAt(log, pulses[k])]

\* the bytes of a nibble sequence, high nibble first
Bytes(nibs) ==
    [k \in 1..(Len(nibs) \div 2) |->
        [rs |-> nibs[2 * k - 1].rs, value |-> nibs[2 * k - 1].nib * 16 + nibs[2 * k].nib]]

Command(value) == [rs |-> "Low", value |-> value]
Data(value) == [rs |-> "High", value |-> value]

\* the set-DDRAM-address command for (column, row), rows counted from 0
AddressCommand(column, row) ==
    Command(LCD_SETDDRAMADDR + column + LCD_ROW_OFFSETS[row + 1])

\* the last public call was op, made on a constructed driver
Called(op) == ret.op = op

---------------------------------------------------------------------------
(* C1: set_cursor(col, row) with row < lines, when all expander writes     *)
(* succeed, issues exactly one command write, the set-DDRAM-address        *)
(* command whose address is col + rowOffset[row], and then tracks          *)
(* (column = col, row = row): for every row < lines and every column.      *)
C1_SetCursorAddress ==
    (Called("set_cursor") /\ ret.args[2] < lcd.lines /\ Succeeded(ret.log)) =>
        /\ ret.st = "ok"
        /\ ret.args[2] < Len(LCD_ROW_OFFSETS)
        /\ Bytes(Sent(ret.log)) = <<AddressCommand(ret.args[1], ret.args[2])>>
        /\ lcd.column = ret.args[1]
        /\ lcd.row = ret.args[2]

\* what does hold: the same, for a row the table has and an address that fits
\* the command's 7-bit address field
SetCursorInRange ==
    (/\ Called("set_cursor") /\ ret.args[2] < lcd.lines /\ Succeeded(ret.log)
     /\ ret.args[2] < Len(LCD_ROW_OFFSETS)
     /\ ret.args[1] + LCD_ROW_OFFSETS[ret.args[2] + 1] < LCD_SETDDRAMADDR) =>
        /\ ret.st = "ok"
        /\ Bytes(Sent(ret.log)) = <<AddressCommand(ret.args[1], ret.args[2])>>
        /\ lcd.column = ret.args[1]
        /\ lcd.row = ret.args[2]

(* C2: set_cursor(col, row) with row >= lines returns the validation       *)
(* error, makes no expander call, and leaves the tracked cursor (and the   *)
(* rest of the driver and the expander) as it was, from every driver state.*)
C2_SetCursorRejects ==
    [][(phase = "live" /\ ncalls' = ncalls + 1 /\ ret'.op = "set_cursor"
        /\ ret'.args[2] >= lcd.lines) =>
           /\ ret'.st = "invalid"
           /\ ret'.log = <<>>
           /\ lcd' = lcd
           /\ mcp' = mcp
           /\ phase' = "live"]_vars

\* a rejected set_cursor on a driver whose cursor had been moved
C2_Witness ==
    /\ Called("set_cursor") /\ ret.st = "invalid"
    /\ lcd.row = 1 /\ lcd.column = 1

(* C3: after any successful message(text) the tracked cursor is (0, 0).    *)
C3_MessageResetsCursor ==
    (Called("message") /\ ret.st = "ok") => (lcd.row = 0 /\ lcd.column = 0)

NewlinesIn(text) == Cardinality({i \in 1..Len(text) : text[i] = NEWLINE})

\* a successful message with more newlines than the display has lines, started
\* away from the origin (its first positioning is not at address 0)
C3_Witness ==
    /\ Called("message") /\ ret.st = "ok"
    /\ NewlinesIn(ret.args[1]) > lcd.lines
    /\ Bytes(Sent(ret.log))[1] = AddressCommand(1, 1)

Min(a, b) == IF a <= b THEN a ELSE b

RECURSIVE Rendered(_, _, _, _)
\* what message() sends for text from character i on, `line` being the row of
\* the line being written: a newline positions at column 0 of the next row
\* (the last row at most), any other character is one data byte
Rendered(text, i, line, lines) ==
    IF i > Len(text) THEN <<>>
    ELSE IF text[i] = NEWLINE
         THEN <<AddressCommand(0, Min(line + 1, lines - 1))>>
              \o Rendered(text, i + 1, line + 1, lines)
         ELSE <<Data(text[i] % U8Modulus)>> \o Rendered(text, i + 1, line, lines)

\* the bytes of message(text) started at (column, row)
ExpectedMessage(text, column, row, lines) ==
    IF text = <<>> THEN <<>>
    ELSE <<AddressCommand(column, row)>> \o Rendered(text, 1, row, lines)

LeftToRightUnaligned ==
    BitAnd(lcd.display_mode, LCD_ENTRYLEFT) > 0 /\ ~lcd.column_align

\* a step that is a call of message(), returning Ok
MessageReturnsOk ==
    /\ phase = "live" /\ ncalls' = ncalls + 1
    /\ ret'.op = "message" /\ ret'.st = "ok"
    /\ LeftToRightUnaligned

IsCommand(byte) == byte.rs = "Low"

Nibble(value) == [rs |-> "Low", nib |-> value]

C5_ConstructionSequence ==
    (Called("new") /\ ret.st = "ok") =>
        LET nibs == Sent(ret.log)
            n == Len(ret.log)
        IN  /\ Succeeded(ret.log)
            /\ Len(nibs) = 12
            /\ SubSeq(nibs, 1, 4) = <<Nibble(3), Nibble(3), Nibble(3), Nibble(2)>>
            /\ Bytes(SubSeq(nibs, 5, 12))
                   = <<Command(LCD_DISPLAYCONTROL + LCD_DISPLAYON),
                       Command(LCD_FUNCTIONSET + LCD_2LINE),
                       Command(LCD_ENTRYMODESET + LCD_ENTRYLEFT),
                       Command(LCD_CLEARDISPLAY)>>
            /\ SubSeq(ret.log, n - 2, n)
                   = <<Call("latch", RGB_RED, "High", TRUE),
                       Call("latch", RGB_GREEN, "High", TRUE),
                       Call("latch", RGB_BLUE, "High", TRUE)>>

C5_Witness == Called("new") /\ ret.st = "ok" /\ phase = "live" /\ ncalls = 0

(* C6: no byte goes through write8 before the handshake 0x3, 0x3, 0x3, 0x2  *)
(* has completed; a construction in which an expander call fails returns    *)
(* the error and no driver; public operations run on a driver only.         *)
IsWrite(call, pin) == call.kind = "latch" /\ call.pin = pin

\* positions of the log where write8 starts: it writes register-select, which
\* initialize() writes once before (the first such write of a construction)
Write8Starts(log) ==
    {i \in 1..Len(log) :
        IsWrite(log[i], LCD_RS) /\ \E j \in 1..(i - 1) : IsWrite(log[j], LCD_RS)}

HandshakeDoneBefore(log, i) ==
    LET nibs == Sent(SubSeq(log, 1, i - 1))
    IN  /\ Len(nibs) >= 4
        /\ SubSeq(nibs, 1, 4) = <<Nibble(3), Nibble(3), Nibble(3), Nibble(2)>>

C6_Step ==
    /\ (phase = "start" /\ ret'.op = "new") =>
          /\ \A i \in Write8Starts(ret'.log) : HandshakeDoneBefore(ret'.log, i)
          /\ ~Succeeded(ret'.log) => (phase' = "failed" /\ ret'.st = "mcp")
          /\ phase' = "live" =>
                (ret'.st = "ok" /\ HandshakeDoneBefore(ret'.log, Len(ret'.log)))
    /\ ncalls' # ncalls => (phase = "live" /\ phase' \in {"live", "aborted"})
    /\ phase = "failed" => phase' = "failed"

C6_HandshakeFirst == [][C6_Step]_vars

\* a construction that failed inside the handshake
C6_Witness ==
    /\ Called("new") /\ ret.st = "mcp" /\ phase = "failed"
    /\ Len(Sent(ret.log)) = 2

(* C7: set_color(r, g, b) writes the red, green and blue pins, in this      *)
(* order, Low for a value > 1 and High otherwise: the writes depend only    *)
(* on (r > 1, g > 1, b > 1).                                                *)
OnOff(on) == IF on THEN "Low" ELSE "High"

C7_ColorThreshold ==
    (Called("set_color") /\ ret.st = "ok") =>
        ret.log = <<Call("latch", RGB_RED, OnOff(ret.args[1] > 1), TRUE),
                    Call("latch", RGB_GREEN, OnOff(ret.args[2] > 1), TRUE),
                    Call("latch", RGB_BLUE, OnOff(ret.args[3] > 1), TRUE)>>

\* set_color(100, 0, 100) wrote what set_color(2, 0, 2) writes
C7_Witness ==
    /\ Called("set_color") /\ ret.st = "ok" /\ ret.args = <<100, 0, 100>>
    /\ ret.log = <<Call("latch", RGB_RED, "Low", TRUE),
                   Call("latch", RGB_GREEN, "High", TRUE),
                   Call("latch", RGB_BLUE, "Low", TRUE)>>

(* C8 as stated: cursor_position(column, row) never fails: whenever it      *)
(* returns, it returns success.                                             *)
C8_AsStated ==
    (Called("cursor_position") /\ ret.st # "panic") => ret.st = "ok"

(* C8, amended: cursor_position(column, row) never returns a validation     *)
(* error; when it returns, it returns success unless one of its expander    *)
(* writes failed, and then it returns that failure.                         *)
C8_CursorPositionErrors ==
    (Called("cursor_position") /\ ret.st # "panic") =>
        /\ ret.st \in {"ok", "mcp"}
        /\ ret.st = "mcp" <=> ~Succeeded(ret.log)

\* a successful cursor_position with both arguments out of range
C8_Witness ==
    /\ Called("cursor_position") /\ ret.st = "ok"
    /\ ret.args[1] >= lcd.columns /\ ret.args[2] >= lcd.lines

(* C9: cursor_position(column, row) writes the set-DDRAM-address command    *)
(* for column' = min(column, columns - 1), row' = min(row, lines - 1), and  *)
(* then tracks (column', row'); checked for the calls whose expander        *)
(* writes all succeed.                                                      *)
C9_CursorPositionClamps ==
    (Called("cursor_position") /\ Succeeded(ret.log)) =>
        LET column == Min(ret.args[1], lcd.columns - 1)
            row == Min(ret.args[2], lcd.lines - 1)
        IN  /\ ret.st = "ok"
            /\ row \in 0..(Len(LCD_ROW_OFFSETS) - 1)
            /\ Bytes(Sent(ret.log)) = <<AddressCommand(column, row)>>
            /\ lcd.column = column
            /\ lcd.row = row

\* what does hold: the same, for the calls that return Ok
CursorPositionWhenOk ==
    (Called("cursor_position") /\ ret.st = "ok") =>
        LET column == Min(ret.args[1], lcd.columns - 1)
            row == Min(ret.args[2], lcd.lines - 1)
        IN  /\ Bytes(Sent(ret.log)) = <<AddressCommand(column, row)>>
            /\ lcd.column = column
            /\ lcd.row = row

(* C10: the 4-entry row-offset table is never indexed past its end: a       *)
(* construction with lines > 4 is rejected with a validation error, and no  *)
(* row-offset lookup of set_cursor or cursor_position is out of bounds.     *)
C10_RowOffsetIndexBounded ==
    /\ (Called("new") /\ ret.args[2] > Len(LCD_ROW_OFFSETS)) => ret.st = "invalid"
    /\ ret.panic # "index"

(* C11: no public operation aborts the process: every call ends by        *)
(* returning success or an error value, never in a panic (out-of-range     *)
(* table index, unsigned subtraction below zero, 8-bit addition overflow). *)
C11_NoPanic == ret.st # "panic" /\ phase # "aborted"

\* what does hold: construction itself never panics, and neither do clear,
\* home, set_color and set_backlight
NoPanicOutsideCursorOps ==
    ret.op \in {"new", "clear", "home", "set_color", "set_backlight"} =>
        ret.st # "panic"

(* C12: in every state reached by construction followed by public          *)
(* operations, successful or failed, the tracked cursor satisfies           *)
(* 0 <= row < lines and 0 <= column.                                        *)
C12_CursorInvariant ==
    phase = "live" => (0 <= lcd.row /\ lcd.row < lcd.lines /\ 0 <= lcd.column)

\* what does hold: the same, on a driver with at least one line
CursorInvariantWithLines ==
    (phase = "live" /\ lcd.lines >= 1) =>
        (0 <= lcd.row /\ lcd.row < lcd.lines /\ 0 <= lcd.column)

(* C13: clear, from any prior driver state and when its writes succeed,    *)
(* issues exactly one command write, the clear-display command 0x01 with    *)
(* register-select low (two nibbles, no data write, no other command), and  *)
(* afterwards the tracked cursor is (0, 0).                                 *)
C13_Clear ==
    (Called("clear") /\ Succeeded(ret.log)) =>
        /\ ret.st = "ok"
        /\ Len(Sent(ret.log)) = 2
        /\ Bytes(Sent(ret.log)) = <<Command(1)>>
        /\ lcd.row = 0
        /\ lcd.column = 0

\* a successful clear as the second call on a driver
C13_Witness ==
    /\ Called("clear") /\ ret.st = "ok" /\ ncalls = 2
    /\ Bytes(Sent(ret.log)) = <<Command(LCD_CLEARDISPLAY)>>
    /\ lcd.row = 0 /\ lcd.column = 0

(* C14: each successful set_backlight(on) performs exactly one expander    *)
(* operation, a direction reconfiguration of the backlight pin (Output      *)
(* when on, Input when off), no level write, and leaves the tracked         *)
(* backlight flag equal to its argument.                                    *)
C14_Backlight ==
    (Called("set_backlight") /\ ret.st = "ok") =>
        /\ ret.log = <<Call("dir", LCD_BACKLIGHT,
                            IF ret.args[1] THEN "Output" ELSE "Input", TRUE)>>
        /\ lcd.backlight = ret.args[1]
        /\ mcp.dir[LCD_BACKLIGHT] = IF ret.args[1] THEN "Output" ELSE "Input"

\* set_backlight(false) as the second call, the backlight pin an input again
C14_Witness ==
    /\ Called("set_backlight") /\ ret.st = "ok" /\ ncalls = 2
    /\ ret.args = <<FALSE>> /\ ~lcd.backlight
    /\ mcp.dir[LCD_BACKLIGHT] = "Input"

(* C15: failures propagate immediately with no retry: in every operation,  *)
(* construction included, once one expander call fails the operation makes  *)
(* no further expander call and returns an error to its caller.             *)
C15_FailFast ==
    /\ \A i \in 1..Len(ret.log) :
           ~ret.log[i].ok => (i = Len(ret.log) /\ ret.st = "mcp")
    /\ ret.st = "mcp" => (ret.log = <<>> \/ ~ret.log[Len(ret.log)].ok)
    /\ (Called("new") /\ ret.st = "mcp") => phase = "failed"

\* a message that failed in the middle of its second byte
C15_Witness ==
    /\ Called("message") /\ ret.st = "mcp"
    /\ Len(ret.log) > 20
    /\ ~ret.log[Len(ret.log)].ok

\* the level bit k of a value puts on a pin
BitLevel(value, k) == IF (value \div (2 ^ k)) % 2 = 1 THEN "High" ELSE "Low"

\* the expander calls of one complete nibble write: the four data pins, then
\* the enable pulse
NibbleWrite(value) ==
    <<Call("latch", LCD_D4, BitLevel(value, 0), TRUE),
      Call("latch", LCD_D5, BitLevel(value, 1), TRUE),
      Call("latch", LCD_D6, BitLevel(value, 2), TRUE),
      Call("latch", LCD_D7, BitLevel(value, 3), TRUE),
      Call("latch", LCD_E, "Low", TRUE),
      Call("latch", LCD_E, "High", TRUE),
      Call("latch", LCD_E, "Low", TRUE)>>

(* C16: write8(byte, is_data) writes register-select first (High for data, *)
(* Low for command), then the high nibble and only then the low nibble,     *)
(* each as one complete nibble write with its own enable pulse, without     *)
(* touching register-select in between: for every byte 0..255 the two       *)
(* latched nibbles n1, n2 satisfy n1 * 16 + n2 = byte, under one            *)
(* register-select level.                                                   *)
C16_Write8Order ==
    (ret.op = "write8" /\ Succeeded(ret.log)) =>
        LET byte == ret.args[1]
            rs == IF ret.args[2] THEN "High" ELSE "Low"
            nibs == Sent(ret.log)
        IN  /\ ret.st = "ok"
            /\ ret.log = <<Call("latch", LCD_RS, rs, TRUE)>>
                         \o NibbleWrite(byte \div 16) \o NibbleWrite(byte % 16)
            /\ Len(nibs) = 2
            /\ nibs[1].rs = rs /\ nibs[2].rs = rs
            /\ nibs[1].nib * 16 + nibs[2].nib = byte

\* the data byte 0xA5 was sent: nibble 10, then nibble 5
C16_Witness ==
    /\ ret.op = "write8" /\ ret.st = "ok" /\ ret.args = <<165, TRUE>>
    /\ Sent(ret.log) = <<[rs |-> "High", nib |-> 10], [rs |-> "High", nib |-> 5]>>

\* a write of the output latch of pin, whether it succeeded or not
IsLatch(c, pin) == c.kind = "latch" /\ c.pin = pin

\* the level of enable before position i of a call's log, for a call that
\* started with enable at level start
EnableBefore(log, i, start) ==
    LET before == {j \in 1..(i - 1) : IsLatch(log[j], LCD_E) /\ log[j].ok}
    IN  IF before = {} THEN start
        ELSE log[CHOOSE j \in before : \A k \in before : k <= j].val

\* no data pin and no register-select is written while enable is High
QuietWhileHigh(log, start) ==
    \A i \in 1..Len(log) :
        (log[i].kind = "latch" /\ log[i].pin \in {LCD_RS, LCD_D4, LCD_D5, LCD_D6, LCD_D7})
            => EnableBefore(log, i, start) = "Low"

\* every write of enable High comes after the writes of D4, D5, D6, D7 and of
\* enable Low, and the expander call after it, if any, writes enable Low
PulseShape(log) ==
    \A i \in 1..Len(log) :
        (IsLatch(log[i], LCD_E) /\ log[i].val = "High") =>
            /\ i >= 6
            /\ IsLatch(log[i - 5], LCD_D4) /\ IsLatch(log[i - 4], LCD_D5)
            /\ IsLatch(log[i - 3], LCD_D6) /\ IsLatch(log[i - 2], LCD_D7)
            /\ IsLatch(log[i - 1], LCD_E) /\ log[i - 1].val = "Low"
            /\ i < Len(log) => (IsLatch(log[i + 1], LCD_E) /\ log[i + 1].val = "Low")

\* write4bits(value) alone: the data pins carry bits 0..3, then the pulse
Write4bitsShape(r) ==
    (r.op = "write4bits" /\ Succeeded(r.log)) =>
        (r.st = "ok" /\ r.log = NibbleWrite(r.args[1]))

(* C17 as stated: write4bits sets D4..D7 to bits 0..3 of the nibble and    *)
(* only then pulses enable Low, High, Low; in every reachable state with    *)
(* enable High no data pin and no register-select is written until enable   *)
(* is Low again, and enable is Low whenever an operation returns            *)
(* successfully.                                                            *)
C17_AsStated ==
    [][/\ Write4bitsShape(ret')
       /\ PulseShape(ret'.log)
       /\ QuietWhileHigh(ret'.log, mcp.olat[LCD_E])
       /\ ret'.st = "ok" => mcp'.olat[LCD_E] = "Low"]_vars

(* C17, amended: write4bits sets D4..D7 to bits 0..3 of the nibble and     *)
(* only then pulses enable Low, High, Low; within every operation enable    *)
(* is written High only after the four data pins, the next expander call    *)
(* is the write of enable Low, and no data pin or register-select is        *)
(* written in between; and while no expander call has failed on the         *)
(* driver, no operation writes a data pin or register-select with enable    *)
(* High and enable is Low whenever an operation returns.                    *)
C17_EnablePulse ==
    [][/\ Write4bitsShape(ret')
       /\ PulseShape(ret'.log)
       /\ QuietWhileHigh(ret'.log, "Low")
       /\ ~bus_failed => QuietWhileHigh(ret'.log, mcp.olat[LCD_E])
       /\ ~bus_failed' => mcp'.olat[LCD_E] = "Low"]_vars

\* write4bits(5) whose last write of enable failed: enable is High and the data
\* pins hold the nibble
C17_Witness ==
    /\ ret.op = "write4bits" /\ ret.args = <<5>> /\ ret.st = "mcp"
    /\ Len(ret.log) = 7
    /\ mcp.olat[LCD_E] = "High"
    /\ mcp.olat[LCD_D4] = "High" /\ mcp.olat[LCD_D5] = "Low"
    /\ mcp.olat[LCD_D6] = "High" /\ mcp.olat[LCD_D7] = "Low"

Frame(s) ==
    <<s.columns, s.lines, s.display_mode, s.display_control, s.display_function,
      s.column_align>>

(* C19: after construction every public operation, successful or failed,   *)
(* leaves columns, lines, the entry-mode, display-control and               *)
(* display-function flags and the column-alignment flag unchanged; hence    *)
(* on every constructed driver the entry mode is left-to-right and column   *)
(* alignment is off.                                                        *)
C19_Frame ==
    [][/\ phase = "live" => Frame(lcd') = Frame(lcd)
       /\ phase' = "live" =>
            (BitAnd(lcd'.display_mode, LCD_ENTRYLEFT) > 0 /\ ~lcd'.column_align)]_vars

\* a second call, a message with a newline, returned on the 16x2 display
C19_Witness ==
    /\ Called("message") /\ ret.st = "ok" /\ ncalls = 2 /\ ret.args = <<HiBye>>
    /\ Frame(lcd) = <<16, 2, 2, 4, 8, FALSE>>

\* the data bytes message() has to send for a text
ExpectedData(text) ==
    LET chars == SelectSeq(text, LAMBDA ch : ch # NEWLINE)
    IN  [k \in 1..Len(chars) |-> Data(chars[k] % 256)]

\* the last n entries of a log
LastCalls(log, n) == SubSeq(log, Len(log) - n + 1, Len(log))

(* C20: a successful message(text) issues exactly one data write           *)
(* (register-select high) per non-newline character, in text order, and     *)
(* none for a newline; the byte is the code point modulo 256, so a          *)
(* character is written with the pin writes of its code point modulo 256.   *)
C20_MessageData ==
    (Called("message") /\ ret.st = "ok") =>
        LET text == ret.args[1]
        IN  /\ SelectSeq(Bytes(Sent(ret.log)), LAMBDA b : b.rs = "High")
                  = ExpectedData(text)
            /\ (Len(text) = 1 /\ text[1] # NEWLINE) =>
                  LastCalls(ret.log, 15) =
                      <<Call("latch", LCD_RS, "High", TRUE)>>
                      \o NibbleWrite((text[1] % 256) \div 16)
                      \o NibbleWrite(text[1] % 16)

\* the character with code point 321 was written as the byte 65
C20_Witness ==
    /\ Called("message") /\ ret.st = "ok" /\ ret.args = <<WideText>>
    /\ SelectSeq(Bytes(Sent(ret.log)), LAMBDA b : b.rs = "High") = <<Data(65)>>

====
